---- MODULE Spec2Model ----
(***************************************************************************)
(* Model of declarative_cli.DeclarativeArgumentParser.                     *)
(*                                                                         *)
(* A schema is the body of a subclass: a sequence of statements, each a    *)
(* field declaration (ast.AnnAssign / ast.Assign), an expression statement *)
(* holding a string constant (ast.Expr), or some other statement (a method *)
(* definition, pass, ...).  Construction (__init__) walks the body, builds *)
(* the option descriptors and the shortcut mapping, and registers every    *)
(* descriptor on the argparse engine.  parse_args parses a token sequence  *)
(* into a mapping of destination -> value.                                 *)
(*                                                                         *)
(* Python values are records [t, s, d] (type tag, scalar text, dict        *)
(* entries) so that values of different Python types stay comparable.      *)
(* Command-line tokens are records [prefix, name]: "--x" is                *)
(* [prefix |-> 2, name |-> "x"], "-x" is [prefix |-> 1, name |-> "x"], and *)
(* a bare word "x" is [prefix |-> 0, name |-> "x"].                        *)
(***************************************************************************)
EXTENDS Integers, Sequences, FiniteSets, TLC

VARIABLES body, cls_doc, pc, description, options, shorts, actions, argv,
          result, prev_changed

vars == <<body, cls_doc, pc, description, options, shorts, actions, argv,
          result, prev_changed>>

(* ------------------------------ bounds --------------------------------- *)

MaxDecls == 2

MaxDocBody == 4

MaxArgv == 2

(* --------------------------- Python values ----------------------------- *)

Str(x) == [t |-> "str", s |-> x, d |-> {}]

Bool(b) == [t |-> "bool", s |-> IF b THEN "True" ELSE "False", d |-> {}]

NoneV == [t |-> "none", s |-> "None", d |-> {}]

DictV(entries) == [t |-> "dict", s |-> "", d |-> entries]

EmptyDict == DictV({})

Unset == [t |-> "unset", s |-> "", d |-> {}]

Suppress == [t |-> "suppress", s |-> "==SUPPRESS==", d |-> {}]

NoText == "<None>"

NoHelp == "<no help>"

NoType == "<no dtype>"

ShortsName == "__shorts__"

(* A shortcut entry of a __shorts__ dict: key -> a string or a list. *)
ShortStr(k, a) == [key |-> k, kind |-> "str", items |-> <<a>>]

ShortList(k, as) == [key |-> k, kind |-> "list", items |-> as]

(* ---------------------------- statements ------------------------------- *)

Decl(n, ty, v) == [kind |-> "decl", name |-> n, dtype |-> ty, value |-> v, text |-> ""]

Doc(txt) == [kind |-> "doc", name |-> "", dtype |-> NoType, value |-> Unset, text |-> txt]

Other == [kind |-> "other", name |-> "", dtype |-> NoType, value |-> Unset, text |-> ""]

IsDecl(stmt) == stmt.kind = "decl"

IsExpr(stmt) == stmt.kind = "doc"

IsField(stmt) == IsDecl(stmt) /\ stmt.name # ShortsName

IsShorts(stmt) == IsDecl(stmt) /\ stmt.name = ShortsName

(* ------------------- attributes of the parser object ------------------- *)

(* Names the compiler mangles inside a class body: the class attribute is  *)
(* stored under _Class__name, so hasattr(self, name) is false.             *)
Mangled(n) == n \in {"__p"}

(* Attributes argparse.ArgumentParser.__init__ sets on the instance.       *)
ParserAttrs == {"description"}

ValuedDecls(b, n) == {i \in 1..Len(b) : IsDecl(b[i]) /\ b[i].name = n /\ b[i].value # Unset}

Max(S) == CHOOSE x \in S : \A y \in S : y <= x

HasAttr(b, n) == n \in ParserAttrs \/ (~Mangled(n) /\ ValuedDecls(b, n) # {})

GetAttr(b, descr, n) ==
  IF n \in ParserAttrs
    THEN (IF descr = NoText THEN NoneV ELSE Str(descr))
    ELSE b[Max(ValuedDecls(b, n))].value

(* self.description after lines 24-26 *)
Description(kw, doc) == IF doc # NoText /\ kw = NoText THEN doc ELSE kw

(* --------------------------- _dap_get_option --------------------------- *)

(* Variant: the literal initializer is preferred to the attribute. *)
DapGetOptionLiteralFirst(tree, pos, b, descr) ==
  [name |-> tree.name,
   dtype |-> tree.dtype,
   default |-> IF tree.value # Unset THEN tree.value
               ELSE IF HasAttr(b, tree.name) THEN GetAttr(b, descr, tree.name)
               ELSE Unset,
   help |-> NoHelp,
   pos |-> pos]

DapGetOption(tree, pos, b, descr) ==
  [name |-> tree.name,
   dtype |-> tree.dtype,
   default |-> IF HasAttr(b, tree.name) THEN GetAttr(b, descr, tree.name)
               ELSE IF tree.value # Unset THEN tree.value
               ELSE Unset,
   help |-> NoHelp,
   pos |-> pos]

(* Reading a key an AttrDict does not hold yields an empty AttrDict. *)
DefaultOf(option) == IF option.default = Unset THEN EmptyDict ELSE option.default

(* ------------------------ the walk of __init__ ------------------------- *)

Last(s) == s[Len(s)]

Front(s) == SubSeq(s, 1, Len(s) - 1)

(* shorts |= d : entries of d replace the entries of the same key *)
Merge(sh, d) == {e \in sh : \A f \in d : f.key # e.key} \cup d

(* Variant: the pop of __shorts__ is not followed by `continue`, so the     *)
(* string falls through to the descriptor that is now last.                *)
WalkStepNoContinue(st, subtree, pos, b, descr) ==
  LET st1 == IF IsDecl(subtree)
               THEN LET o == DapGetOption(subtree, pos, b, descr) IN
                    [options |-> Append(st.options, o),
                     shorts |-> IF o.name = ShortsName
                                  THEN Merge(st.shorts, DefaultOf(o).d)
                                  ELSE st.shorts]
               ELSE st
      st2 == IF st1.options # <<>> /\ IsExpr(subtree)
                  /\ Last(st1.options).name = ShortsName
               THEN [st1 EXCEPT !.options = Front(st1.options)]
               ELSE st1
  IN IF st2.options = <<>> THEN st2
     ELSE IF IsExpr(subtree)
       THEN [st2 EXCEPT !.options[Len(st2.options)].help = subtree.text]
     ELSE st2

WalkStep(st, subtree, pos, b, descr) ==
  LET st1 == IF IsDecl(subtree)
               THEN LET o == DapGetOption(subtree, pos, b, descr) IN
                    [options |-> Append(st.options, o),
                     shorts |-> IF o.name = ShortsName
                                  THEN Merge(st.shorts, DefaultOf(o).d)
                                  ELSE st.shorts]
               ELSE st
  IN IF st1.options = <<>> THEN st1
     ELSE IF IsExpr(subtree)
       THEN IF Last(st1.options).name = ShortsName
              THEN [st1 EXCEPT !.options = Front(st1.options)]
              ELSE [st1 EXCEPT !.options[Len(st1.options)].help = subtree.text]
     ELSE st1

RECURSIVE WalkFrom(_, _, _, _)
WalkFrom(b, i, st, descr) ==
  IF i > Len(b) THEN st
  ELSE WalkFrom(b, i + 1, WalkStep(st, b[i], i, b, descr), descr)

Walk(b, descr) == WalkFrom(b, 1, [options |-> <<>>, shorts |-> {}], descr)

(* ----------------------------- registration ---------------------------- *)

Flag(p, n) == [prefix |-> p, name |-> n]

Long(n) == Flag(2, n)

Short(n) == Flag(1, n)

Word(n) == Flag(0, n)

(* The characters of an alias string. *)
Chars(a) == IF a = "xy" THEN <<"x", "y">> ELSE <<a>>

(* Variant: a single string is not wrapped in a list, so the comprehension *)
(* iterates over its characters.                                           *)
OptShortsChars(sh, n) ==
  IF \E e \in sh : e.key = n
    THEN LET e == CHOOSE e \in sh : e.key = n IN
         IF e.kind = "list" THEN e.items ELSE Chars(e.items[1])
    ELSE <<>>

(* shorts.get(option.name, []) normalised to a list *)
OptShorts(sh, n) ==
  IF \E e \in sh : e.key = n
    THEN LET e == CHOOSE e \in sh : e.key = n IN
         IF e.kind = "list" THEN e.items ELSE <<e.items[1]>>
    ELSE <<>>

OptString(option, sh) ==
  <<Long(option.name)>> \o
  [k \in 1..Len(OptShorts(sh, option.name)) |-> Short(OptShorts(sh, option.name)[k])]

(* Variant: the two boolean actions are exchanged. *)
OptActionSwapped(option) ==
  IF option.dtype = "bool"
    THEN (IF DefaultOf(option) = Bool(FALSE) THEN "store_false" ELSE "store_true")
    ELSE "store"

OptAction(option) ==
  IF option.dtype = "bool"
    THEN (IF DefaultOf(option) = Bool(FALSE) THEN "store_true" ELSE "store_false")
    ELSE "store"

Range(s) == {s[k] : k \in 1..Len(s)}

(* The -h/--help action argparse adds when the engine is created. *)
HelpAction ==
  [option_strings |-> <<Short("h"), Long("help")>>, dest |-> "help",
   action |-> "help", default |-> Suppress, help |-> "show this help message and exit"]

RegisteredFlags(acts) == UNION {Range(acts[k].option_strings) : k \in 1..Len(acts)}

(* Variant: a repeated option string is accepted. *)
ConflictsIgnored(acts, option, sh) == FALSE

(* add_argument: a conflicting option string raises ArgumentError *)
Conflicts(acts, option, sh) == Range(OptString(option, sh)) \cap RegisteredFlags(acts) # {}

AddArgument(acts, option, sh) ==
  Append(acts, [option_strings |-> OptString(option, sh),
                dest |-> option.name,
                action |-> OptAction(option),
                default |-> DefaultOf(option),
                help |-> option.help])

RECURSIVE RegisterFrom(_, _, _, _)
RegisterFrom(opts, k, sh, reg) ==
  IF ~reg.ok \/ k > Len(opts) THEN reg
  ELSE RegisterFrom(opts, k + 1, sh,
         IF Conflicts(reg.actions, opts[k], sh)
           THEN [ok |-> FALSE, actions |-> reg.actions]
           ELSE [ok |-> TRUE, actions |-> AddArgument(reg.actions, opts[k], sh)])

Register(opts, sh) == RegisterFrom(opts, 1, sh, [ok |-> TRUE, actions |-> <<HelpAction>>])

(* ------------------------------ parse_args ----------------------------- *)

Dests(acts) == {acts[k].dest : k \in {j \in 1..Len(acts) : acts[j].default # Suppress}}

ActionOfDest(acts, dst) == acts[CHOOSE k \in 1..Len(acts) : acts[k].dest = dst]

ActionOfFlag(acts, f) == acts[CHOOSE k \in 1..Len(acts) : f \in Range(acts[k].option_strings)]

Defaults(acts) == [dst \in Dests(acts) |-> ActionOfDest(acts, dst).default]

(* Variant: the namespace of the previous call is reused. *)
NewNamespaceReused(acts, prev) ==
  IF DOMAIN prev = Dests(acts) THEN prev ELSE Defaults(acts)

(* namespace=None: every call starts from a new namespace of defaults *)
NewNamespace(acts, prev) == Defaults(acts)

RECURSIVE ParseFrom(_, _, _, _)
ParseFrom(acts, toks, i, ns) ==
  IF i > Len(toks) THEN [ok |-> TRUE, ns |-> ns]
  ELSE IF toks[i].prefix = 0 \/ toks[i] \notin RegisteredFlags(acts)
    THEN [ok |-> FALSE, ns |-> ns]
  ELSE LET a == ActionOfFlag(acts, toks[i]) IN
    CASE a.action = "store" ->
           IF i + 1 <= Len(toks) /\ toks[i + 1].prefix = 0
             THEN ParseFrom(acts, toks, i + 2, [ns EXCEPT ![a.dest] = Str(toks[i + 1].name)])
             ELSE [ok |-> FALSE, ns |-> ns]
      [] a.action = "store_true" ->
           ParseFrom(acts, toks, i + 1, [ns EXCEPT ![a.dest] = Bool(TRUE)])
      [] a.action = "store_false" ->
           ParseFrom(acts, toks, i + 1, [ns EXCEPT ![a.dest] = Bool(FALSE)])
      [] OTHER -> [ok |-> FALSE, ns |-> ns]

Parse(acts, toks, prev) == ParseFrom(acts, toks, 1, NewNamespace(acts, prev))

(* ------------------------------- inputs -------------------------------- *)

SeqsUpTo(S, n) == UNION {[1..k -> S] : k \in 0..n}

RECURSIVE Flatten(_)
Flatten(ss) == IF ss = <<>> THEN <<>> ELSE Head(ss) \o Flatten(Tail(ss))

FieldStmts ==
  {Decl("a", "str", Str("d1")), Decl("a", NoType, Str("d2")), Decl("a", "str", Unset),
   Decl("b", "bool", Bool(FALSE)), Decl("b", "bool", Bool(TRUE)),
   Decl("description", "str", Str("d1")), Decl("__p", "str", Str("d1"))}

ShortsStmts ==
  {Decl(ShortsName, NoType, DictV({ShortStr("a", "xy")})),
   Decl(ShortsName, NoType, DictV({ShortList("a", <<"x", "y">>), ShortStr("b", "z")}))}

(* A declaration of the schemas of Spec: a field, or a documented __shorts__ *)
Chunks == {<<f>> : f \in FieldStmts} \cup {<<s, Doc("h1")>> : s \in ShortsStmts}

Bodies == {Flatten(c) : c \in SeqsUpTo(Chunks, MaxDecls)}

DocStmts ==
  {Decl("a", "str", Str("d1")), Decl("b", "str", Str("d1")),
   Decl(ShortsName, NoType, DictV({ShortStr("a", "xy")})),
   Doc("h1"), Doc("h2"), Other}

DocBodies == SeqsUpTo(DocStmts, MaxDocBody)

ClassDocs == {NoText, "Options"}

KwDescriptions == {NoText, "kw"}

Words == {Word("v1")}

SchemaFlags(acts) ==
  UNION {Range(acts[k].option_strings) : k \in {j \in 1..Len(acts) : acts[j].action # "help"}}

Tokens(acts) == SchemaFlags(acts) \cup Words \cup {Long("help")}

Argvs(acts) == SeqsUpTo(Tokens(acts), MaxArgv)

(* ------------------------------ the machine ---------------------------- *)

InitWith(bodies, docs) ==
  /\ body \in bodies
  /\ cls_doc \in docs
  /\ pc = "declared"
  /\ description = NoText
  /\ options = <<>>
  /\ shorts = {}
  /\ actions = <<>>
  /\ argv = <<>>
  /\ result = <<>>
  /\ prev_changed = FALSE

Init == InitWith(Bodies, ClassDocs)

InitDoc == InitWith(DocBodies, {NoText})

(* __init__ returns: every descriptor was registered *)
Construct ==
  /\ pc = "declared"
  /\ \E kw \in KwDescriptions :
       LET descr == Description(kw, cls_doc)
           w == Walk(body, descr)
           reg == Register(w.options, w.shorts)
       IN /\ reg.ok
          /\ description' = descr
          /\ options' = w.options
          /\ shorts' = w.shorts
          /\ actions' = reg.actions
          /\ pc' = "constructed"
  /\ UNCHANGED <<body, cls_doc, argv, result, prev_changed>>

(* __init__ raises argparse.ArgumentError out of add_argument: no parser *)
ConstructFails ==
  /\ pc = "declared"
  /\ \E kw \in KwDescriptions :
       LET descr == Description(kw, cls_doc)
           w == Walk(body, descr)
           reg == Register(w.options, w.shorts)
       IN /\ ~reg.ok
          /\ description' = descr
          /\ options' = w.options
          /\ shorts' = w.shorts
          /\ actions' = <<>>
          /\ pc' = "failed"
  /\ UNCHANGED <<body, cls_doc, argv, result, prev_changed>>

(* parse_args returns AttrDict(vars(args)) *)
ParseArgs ==
  /\ pc \in {"constructed", "parsed"}
  /\ \E toks \in Argvs(actions) :
       LET p == Parse(actions, toks, result) IN
       /\ p.ok
       /\ argv' = toks
       /\ result' = p.ns
       /\ prev_changed' = (pc = "parsed" /\ result # Defaults(actions))
       /\ pc' = "parsed"
  /\ UNCHANGED <<body, cls_doc, description, options, shorts, actions>>

(* parse_args ends in parser.error or print_help: the process exits *)
ParseArgsExits ==
  /\ pc \in {"constructed", "parsed"}
  /\ \E toks \in Argvs(actions) : ~Parse(actions, toks, result).ok
  /\ pc' = "exited"
  /\ UNCHANGED <<body, cls_doc, description, options, shorts, actions, argv,
                 result, prev_changed>>

Next == Construct \/ ConstructFails \/ ParseArgs \/ ParseArgsExits

Spec == Init /\ [][Next]_vars

SpecDoc == InitDoc /\ [][Next]_vars

(* ------------------------------ properties ----------------------------- *)

Constructed == pc \in {"constructed", "parsed", "exited"}

FieldDecls(b) == {i \in 1..Len(b) : IsField(b[i])}

SchemaActions(acts) == {k \in 1..Len(acts) : acts[k].action # "help"}

(* The action registered for the k-th descriptor (the help action is first) *)
ActionOfOption(k) == actions[k + 1]

FlagsOfOption(k) == Range(ActionOfOption(k).option_strings)

Occurrences(toks, flags) == {i \in 1..Len(toks) : toks[i] \in flags}

DocTexts(b) == {i \in 1..Len(b) : IsExpr(b[i])}

UniqueText(b, j) == \A i \in DocTexts(b) : b[i].text = b[j].text => i = j

(* C1: with N non-reserved field declarations in the schema, construction  *)
(* registers exactly N flags and none for the reserved __shorts__ field,   *)
(* whether or not a documentation string follows the __shorts__            *)
(* declaration.                                                            *)
C1_OneFlagPerField ==
  Constructed =>
    /\ Cardinality(SchemaActions(actions)) = Cardinality(FieldDecls(body))
    /\ \A k \in SchemaActions(actions) : actions[k].dest # ShortsName

(* C2: for a boolean field whose descriptor default is False, a parse      *)
(* whose tokens do not contain the field's flag yields False and a parse   *)
(* whose tokens contain it yields True; for default True the polarity is   *)
(* inverted.                                                               *)
C2_BoolPolarity ==
  pc = "parsed" =>
    \A k \in 1..Len(options) :
      (options[k].dtype = "bool" /\ options[k].default \in {Bool(FALSE), Bool(TRUE)}) =>
        LET used == Occurrences(argv, FlagsOfOption(k)) # {} IN
        result[options[k].name] =
          IF options[k].default = Bool(FALSE) THEN Bool(used) ELSE Bool(~used)

C2_Witness ==
  /\ pc = "parsed"
  /\ \E k \in 1..Len(options) :
       /\ options[k].dtype = "bool"
       /\ body[options[k].pos].value = Bool(FALSE)
       /\ argv = <<Long(options[k].name)>>
       /\ result[options[k].name] = Bool(TRUE)

(* C3: every non-boolean field declared with default D, whatever its name, *)
(* parses to D when the tokens supply no value for it and to V, verbatim,  *)
(* when they supply --<field> V.                                           *)
C3_DeclaredDefaultOrValue ==
  pc = "parsed" =>
    \A k \in 1..Len(options) :
      (/\ options[k].dtype # "bool"
       /\ options[k].name # ShortsName
       /\ body[options[k].pos].value # Unset) =>
        LET occ == Occurrences(argv, FlagsOfOption(k)) IN
        result[options[k].name] =
          IF occ = {} THEN body[options[k].pos].value
          ELSE Str(argv[Max(occ) + 1].name)

(* The __shorts__ attribute of the schema class: its last assignment. *)
ShortsAttr(b) ==
  IF ValuedDecls(b, ShortsName) = {} THEN {}
  ELSE b[Max(ValuedDecls(b, ShortsName))].value.d

DeclaredAliases(b, n) == UNION {Range(e.items) : e \in {f \in ShortsAttr(b) : f.key = n}}

RegisteredNames == {options[k].name : k \in 1..Len(options)}

AliasOwners(tok) ==
  {n \in RegisteredNames : tok.prefix = 1 /\ tok.name \in DeclaredAliases(body, n)}

(* The tokens with every declared alias replaced by its field's long flag. *)
LongForm(toks) ==
  [i \in 1..Len(toks) |->
     IF AliasOwners(toks[i]) # {} THEN Long(CHOOSE n \in AliasOwners(toks[i]) : TRUE)
     ELSE toks[i]]

(* C4: every alias __shorts__ declares for a registered field, as a single *)
(* string or in a list, is an option string of the same action (and so of  *)
(* the same destination) as the field's long flag, and a parse through the *)
(* aliases yields the result of the same tokens with the long flags,       *)
(* whether __shorts__ is declared before or after the field.               *)
C4_AliasSameDestination ==
  Constructed =>
    /\ \A k \in 1..Len(options) :
         \A a \in DeclaredAliases(body, options[k].name) :
           /\ Long(options[k].name) \in FlagsOfOption(k)
           /\ Short(a) \in FlagsOfOption(k)
           /\ ActionOfOption(k).dest = options[k].name
    /\ pc = "parsed" => result = Parse(actions, LongForm(argv), <<>>).ns

C4_Witness ==
  /\ pc = "parsed"
  /\ argv = <<Short("xy"), Word("v1")>>
  /\ result["a"] = Str("v1")
  /\ \E i, j \in 1..Len(body) :
       /\ i < j
       /\ IsField(body[i]) /\ body[i].name = "a"
       /\ IsShorts(body[j]) /\ ShortStr("a", "xy") \in body[j].value.d

(* C5: the help text of each registered field is the documentation string  *)
(* that immediately follows its declaration, and a field whose declaration *)
(* is not immediately followed by one has no help text.                    *)
C5_HelpIsNextDoc ==
  Constructed =>
    \A k \in 1..Len(options) :
      options[k].name # ShortsName =>
        LET p == options[k].pos IN
        ActionOfOption(k).help =
          IF p < Len(body) /\ IsExpr(body[p + 1]) THEN body[p + 1].text ELSE NoHelp

(* C6: a documentation string that is not the statement immediately after  *)
(* a field declaration is not attached as the help text of any field.      *)
C6_OnlyAdjacentDocAttaches ==
  Constructed =>
    \A j \in DocTexts(body) :
      (UniqueText(body, j) /\ ~(j > 1 /\ IsField(body[j - 1]))) =>
        \A k \in 1..Len(actions) : actions[k].help # body[j].text

(* The body without the __shorts__ declaration at j and its string at j+1 *)
RemoveAt(b, j) == SubSeq(b, 1, j - 1) \o SubSeq(b, j + 2, Len(b))

IsNotShorts(o) == o.name # ShortsName

FieldHelps(opts) ==
  [k \in 1..Len(SelectSeq(opts, IsNotShorts)) |->
     [name |-> SelectSeq(opts, IsNotShorts)[k].name,
      help |-> SelectSeq(opts, IsNotShorts)[k].help]]

DocumentedShorts(b) == {j \in 1..Len(b) - 1 : IsShorts(b[j]) /\ IsExpr(b[j + 1])}

(* C7: the documentation string that follows a __shorts__ declaration is   *)
(* discarded: it is the help text of no registered field, declared earlier *)
(* or later, and every other field has the help text it would have with    *)
(* the __shorts__ declaration and its string removed from the class body.  *)
C7_ShortsDocDiscarded ==
  Constructed =>
    \A j \in DocumentedShorts(body) :
      /\ UniqueText(body, j + 1) =>
           \A k \in 1..Len(actions) : actions[k].help # body[j + 1].text
      /\ FieldHelps(options) = FieldHelps(Walk(RemoveAt(body, j), description).options)

C7_Witness ==
  /\ Constructed
  /\ \E j \in DocumentedShorts(body) :
       /\ UniqueText(body, j + 1)
       /\ \E k \in 1..Len(options) :
            options[k].pos < j /\ options[k].help \notin {NoHelp, body[j + 1].text}

FieldsNamed(b, n) == {i \in FieldDecls(b) : b[i].name = n}

DuplicateField(b) == \E i \in FieldDecls(b) : Cardinality(FieldsNamed(b, b[i].name)) > 1

(* C8: a schema that declares the same field name twice keeps both         *)
(* descriptors, the second registration of the long flag is rejected and   *)
(* construction fails: no parser is produced.                              *)
C8_DuplicateFieldFails ==
  (pc # "declared" /\ DuplicateField(body)) =>
    /\ \A i \in FieldDecls(body) :
         Cardinality({k \in 1..Len(options) : options[k].name = body[i].name})
           = Cardinality(FieldsNamed(body, body[i].name))
    /\ pc = "failed"
    /\ actions = <<>>

C8_Witness ==
  /\ pc = "failed"
  /\ Len(options) = 2
  /\ options[1].name = options[2].name
  /\ body[options[1].pos].value # body[options[2].pos].value

(* What the tokens alone determine for a destination: the value given at   *)
(* the last use of one of its option strings, or else its default.         *)
Resolved(acts, toks, dst) ==
  LET a == ActionOfDest(acts, dst)
      occ == Occurrences(toks, Range(a.option_strings))
  IN IF occ = {} THEN a.default
     ELSE IF a.action = "store" THEN Str(toks[Max(occ) + 1].name)
     ELSE Bool(a.action = "store_true")

(* C9: no parse_args call changes the registered descriptors, and every    *)
(* call's result is determined by that call's tokens alone: parsing no     *)
(* tokens after any other parse yields every default.                      *)
C9_ParseIsFresh ==
  [][pc' = "parsed" =>
       /\ actions' = actions
       /\ options' = options
       /\ shorts' = shorts
       /\ result' = [dst \in Dests(actions) |-> Resolved(actions, argv', dst)]
       /\ argv' = <<>> => result' = Defaults(actions)]_vars

C9_Witness ==
  /\ pc = "parsed"
  /\ prev_changed
  /\ argv = <<>>
  /\ Dests(actions) # {}
  /\ result = Defaults(actions)

(* C10: the default a descriptor records is the attribute of that name     *)
(* when the object has one, the literal initializer of the declaration     *)
(* only when it has none, and nothing when there is neither.               *)
C10_DefaultPriority ==
  pc # "declared" =>
    \A k \in 1..Len(options) :
      LET o == options[k]
          tree == body[o.pos]
          later == {i \in 1..Len(body) :
                      IsDecl(body[i]) /\ body[i].name = o.name /\ body[i].value # Unset}
      IN /\ tree.name = o.name
         /\ o.name = "description" =>
              o.default = (IF description = NoText THEN NoneV ELSE Str(description))
         /\ (o.name # "description" /\ ~Mangled(o.name) /\ later # {}) =>
              o.default = body[Max(later)].value
         /\ (o.name # "description" /\ (Mangled(o.name) \/ later = {})) =>
              o.default = tree.value

C10_Witness ==
  /\ pc = "constructed"
  /\ \E k \in 1..Len(options) :
       /\ options[k].name = "description"
       /\ body[options[k].pos].value = Str("d1")
       /\ options[k].default = Str("Options")
  /\ \E k \in 1..Len(options) :
       /\ options[k].name = "__p"
       /\ options[k].default = Str("d1")

====
